---- MODULE Spec2Model ----
(***************************************************************************)
(* Rate-based admission control of odygrd/cs (lib/ets):                    *)
(*   CircularBuffer  - fixed-capacity ring of the most recent n items      *)
(*   SlidingWindow   - admission gate over a CircularBuffer of timestamps  *)
(*   Throttler       - immediate dispatch or two-lane buffering + drain    *)
(* Time is an integer number of clock units (nanoseconds in the source).   *)
(* The specifications share the variables:                                 *)
(*   SpecBuffer  - a CircularBuffer<uint32_t> driven by insert()           *)
(*   SpecWindow  - a SlidingWindow driven by request()                     *)
(*   Spec        - a Throttler driven by try_send_message() and            *)
(*                 send_queued_messages()                                  *)
(*   SpecEquivalence - the two CircularBuffer variants driven side by side *)
(*   SpecDemo    - the MealProcessor worker of the example program         *)
(***************************************************************************)
EXTENDS Integers, Sequences, FiniteSets, TLC

\* ------------------------------------------------------------------ bounds
MaxN == 2          \* largest capacity n / max_messages explored
MaxInterval == 2   \* largest interval explored (clock units)
MaxMsgs == 3       \* messages submitted to a Throttler
MaxReq == 5        \* request() calls made on a bare SlidingWindow
MaxInserts == 5    \* insert() calls made on a bare CircularBuffer
MaxVal == 2        \* items inserted into a bare CircularBuffer are 0..MaxVal
HeadWidth == 3     \* bits of the std::size_t counter _head (64 in the build)

\* The message types a Throttler<H, ...> is used with: the designated
\* high-priority type and one other type.
MsgTypes == {"High", "Low"}
THighPriorityMessage == "High"

VARIABLES
  _max_messages,            \* SlidingWindow::_max_messages (capacity n)
  _interval,                \* SlidingWindow::_interval
  now,                      \* std::chrono::steady_clock::now()
  _buffer,                  \* CircularBuffer::_buffer, indexed 0..n-1
  _index,                   \* CircularBuffer::_index
  _full,                    \* CircularBuffer::_full
  _high_priority_messages,  \* Throttler::_high_priority_messages
  _rest_messages,           \* Throttler::_rest_messages
  sent,                     \* the calls of OnSendCallback::on_send, in order
  recent,                   \* the times of the on_send calls of the last _interval
  pc,                       \* position of the caller inside send_queued_messages
  delay,                    \* the value the last finished call returned
  next_id,                  \* number of the next message to be submitted
  last,                     \* the most recent request(): its caller, the time it read,
                            \* the branch it took, whether it inserted, its result
  granted,                  \* history: every timestamp request() has inserted (bare window)
  nreq,                     \* history: request() calls made on a bare window
  inserted,                 \* history: every item insert() was given (bare buffer)
  _head,                    \* CircularBuffer::_head (modulo variant)
  _buffer_modulo,           \* CircularBuffer::_buffer (modulo variant)
  _scheduled,               \* MealProcessor::_scheduled, 0 is time_point{}
  _message_queue,           \* MealProcessor::_message_queue: the types pushed
  worker                    \* position of the MealProcessor worker in _main_loop

bufVars == <<_buffer, _index, _full>>
winVars == <<_max_messages, _interval>>
laneVars == <<_high_priority_messages, _rest_messages>>
sinkVars == <<sent, recent>>
moduloVars == <<_head, _buffer_modulo>>
demoVars == <<_scheduled, _message_queue, worker>>
vars == <<_max_messages, _interval, now, _buffer, _index, _full,
          _high_priority_messages, _rest_messages, sent, recent, pc, delay,
          next_id, last, granted, nreq, inserted, _head, _buffer_modulo,
          _scheduled, _message_queue, worker>>

\* ------------------------------------------------------- CircularBuffer<T>
\* T{} : the value-initialised item the constructor's resize(n) stores
\* (0 for uint32_t, the clock's epoch for a time_point).
DefaultT == 0

\* explicit CircularBuffer(std::size_t n) { _buffer.resize(n); }
CircularBuffer(n) ==
  /\ _buffer = [i \in 0..(n - 1) |-> DefaultT]
  /\ _index = 0
  /\ _full = FALSE

size == Cardinality(DOMAIN _buffer)

\* mutation: the flag is recomputed at every insertion
insert_recomputes_full(item) ==
  /\ _buffer' = [_buffer EXCEPT ![_index] = item]
  /\ _index' = IF _index + 1 = size THEN 0 ELSE _index + 1
  /\ _full' = (_index + 1 = size)

\* void insert(T const& item)
insert(item) ==
  /\ _buffer' = [_buffer EXCEPT ![_index] = item]
  /\ IF _index + 1 = size
       THEN /\ _index' = 0
            /\ _full' = TRUE
       ELSE /\ _index' = _index + 1
            /\ _full' = _full

\* mutation: the newest slot is read instead of the oldest
back_slot_newest == IF _full THEN (_index + size - 1) % size ELSE 0

\* mutation: the cursor is read whether or not the buffer is full
back_slot_cursor == _index

\* the slot back() reads
back_slot == IF _full THEN _index ELSE 0

\* T const& back() const
back == _buffer[back_slot]

\* bool is_full() const
is_full == _full

\* ------------------------------------- CircularBuffer<T>, modulo variant
\* std::size_t arithmetic is modulo 2^w; w is 64 in the build, HeadWidth here
SizeModulus == 2 ^ HeadWidth

\* explicit CircularBuffer(std::size_t n) { _buffer.resize(n); }, _head{0}
CircularBufferModulo(n) ==
  /\ _buffer_modulo = [i \in 0..(n - 1) |-> DefaultT]
  /\ _head = 0

size_modulo == Cardinality(DOMAIN _buffer_modulo)

\* void insert(T const& item): _buffer[_head % _buffer.size()] = item; _head += 1
insert_modulo(item) ==
  /\ _buffer_modulo' = [_buffer_modulo EXCEPT ![_head % size_modulo] = item]
  /\ _head' = (_head + 1) % SizeModulus

\* T const& back() const
back_modulo ==
  IF _head < size_modulo THEN _buffer_modulo[0]
                         ELSE _buffer_modulo[_head % size_modulo]

\* bool is_full() const
is_full_modulo == _head >= size_modulo

\* ----------------------------------------------------------- SlidingWindow
\* SlidingWindow(max_messages, interval)
SlidingWindow(max_messages, interval) ==
  /\ _max_messages = max_messages
  /\ _interval = interval
  /\ CircularBuffer(max_messages)

\* mutation: the oldest timestamp leaves the window one instant too early
hit_limit_strict(dif_from_oldest) == (dif_from_oldest < _interval) /\ is_full

\* mutation: the fullness test is forgotten
hit_limit_no_full(dif_from_oldest) == dif_from_oldest <= _interval

\* mutation: the age of the oldest timestamp is not compared
hit_limit_no_age(dif_from_oldest) == is_full

\* the test of line 33: the limit is hit, no message may be sent
hit_limit(dif_from_oldest) == (dif_from_oldest <= _interval) /\ is_full

\* mutation: the timestamp is recorded before the limit is tested
request_records_first(caller) ==
  LET dif_from_oldest == now - back IN
  /\ insert(now)
  /\ last' = [op |-> caller, at |-> now, denied |-> hit_limit(dif_from_oldest),
              recorded |-> TRUE,
              ret |-> IF hit_limit(dif_from_oldest)
                        THEN _interval - dif_from_oldest ELSE 0]

\* mutation: a denial returns the whole interval, not what is left of it
request_full_delay(caller) ==
  LET dif_from_oldest == now - back IN
  IF hit_limit(dif_from_oldest)
    THEN /\ UNCHANGED bufVars
         /\ last' = [op |-> caller, at |-> now, denied |-> TRUE,
                     recorded |-> FALSE, ret |-> _interval]
    ELSE /\ insert(now)
         /\ last' = [op |-> caller, at |-> now, denied |-> FALSE,
                     recorded |-> TRUE, ret |-> 0]

\* std::chrono::nanoseconds request(); `caller` only labels the history
request(caller) ==
  LET dif_from_oldest == now - back IN
  IF hit_limit(dif_from_oldest)
    THEN /\ UNCHANGED bufVars
         /\ last' = [op |-> caller, at |-> now, denied |-> TRUE,
                     recorded |-> FALSE, ret |-> _interval - dif_from_oldest]
    ELSE /\ insert(now)
         /\ last' = [op |-> caller, at |-> now, denied |-> FALSE,
                     recorded |-> TRUE, ret |-> 0]

\* ------------------------------------------------------------------- clock
\* the newest timestamp the window holds (the epoch when it holds none)
Newest == CHOOSE t \in {_buffer[i] : i \in DOMAIN _buffer} :
            \A i \in DOMAIN _buffer : _buffer[i] <= t

\* The monotonic clock advances. It is followed until every recorded
\* timestamp is strictly older than the interval; later instants repeat that
\* situation.
Tick ==
  /\ now < Newest + _interval + 1
  /\ now' = now + 1
  /\ recent' = SelectSeq(recent, LAMBDA t : t >= now' - _interval)
  /\ UNCHANGED <<moduloVars, demoVars>>
  /\ UNCHANGED <<winVars, bufVars, laneVars, sent, pc, delay, next_id, last,
                 granted, nreq, inserted>>

NoRequest == [op |-> "none", at |-> 0, denied |-> FALSE, recorded |-> FALSE,
              ret |-> 0]

\* ---------------------------------------------------------------- Throttler
\* OnSendCallback::on_send(message), reached from `lane`
on_send(m, lane) ==
  /\ sent' = Append(sent, [id |-> m.id, type |-> m.type, from |-> lane,
                           hp_waiting |-> Len(_high_priority_messages)])
  /\ recent' = Append(recent, now)

\* Throttler(max_messages, interval, on_send_callback)
Throttler(max_messages, interval) ==
  /\ SlidingWindow(max_messages, interval)
  /\ _high_priority_messages = <<>>
  /\ _rest_messages = <<>>
  /\ sent = <<>>
  /\ recent = <<>>

\* mutation: a throttled message is stored at the front of its lane
store_front(m) ==
  IF m.type = THighPriorityMessage
    THEN /\ _high_priority_messages' = <<m>> \o _high_priority_messages
         /\ UNCHANGED _rest_messages
    ELSE /\ _rest_messages' = <<m>> \o _rest_messages
         /\ UNCHANGED _high_priority_messages

\* mutation: a throttled message is stored in the lane of the other type
store_swapped(m) ==
  IF m.type = THighPriorityMessage
    THEN /\ _rest_messages' = Append(_rest_messages, m)
         /\ UNCHANGED _high_priority_messages
    ELSE /\ _high_priority_messages' = Append(_high_priority_messages, m)
         /\ UNCHANGED _rest_messages

\* where try_send_message stores a throttled message
store(m) ==
  IF m.type = THighPriorityMessage
    THEN /\ _high_priority_messages' = Append(_high_priority_messages, m)
         /\ UNCHANGED _rest_messages
    ELSE /\ _rest_messages' = Append(_rest_messages, m)
         /\ UNCHANGED _high_priority_messages

\* mutation: a message is dispatched directly only when nothing that should
\* precede it is buffered; otherwise it queues behind the buffered messages
try_send_message_behind_queue(m) ==
  /\ pc = "idle"
  /\ request("try_send_message")
  /\ IF /\ last'.ret = 0
        /\ _high_priority_messages = <<>>
        /\ (m.type = THighPriorityMessage \/ _rest_messages = <<>>)
       THEN /\ on_send(m, "submit")
            /\ UNCHANGED laneVars
            /\ delay' = 0
       ELSE /\ store(m)
            /\ UNCHANGED sinkVars
            /\ delay' = last'.ret
  /\ next_id' = next_id + 1
  /\ UNCHANGED moduloVars
  /\ UNCHANGED <<winVars, now, pc, granted, nreq, inserted>>

\* std::chrono::nanoseconds try_send_message(TMessage const& message)
try_send_message(m) ==
  /\ pc = "idle"
  /\ request("try_send_message")
  /\ IF last'.ret = 0
       THEN /\ on_send(m, "submit")
            /\ UNCHANGED laneVars
            /\ delay' = 0
       ELSE /\ store(m)
            /\ UNCHANGED sinkVars
            /\ delay' = last'.ret
  /\ next_id' = next_id + 1
  /\ UNCHANGED moduloVars
  /\ UNCHANGED <<winVars, now, pc, granted, nreq, inserted>>

Submit ==
  /\ next_id <= MaxMsgs
  /\ \E type \in MsgTypes : try_send_message([id |-> next_id, type |-> type])
  /\ UNCHANGED demoVars

\* send_queued_messages() is entered: _send_queued_messages(_high_priority_messages)
send_queued_messages ==
  /\ pc = "idle"
  /\ pc' = "high"
  /\ UNCHANGED <<moduloVars, demoVars>>
  /\ UNCHANGED <<winVars, now, bufVars, laneVars, sinkVars, delay, next_id, last,
                 granted, nreq, inserted>>

container == IF pc = "high" THEN _high_priority_messages ELSE _rest_messages

\* mutation: the sent message is not erased
erase_nothing == UNCHANGED laneVars

\* message_it = message_container.erase(message_it), message_it being begin()
erase_front ==
  IF pc = "high"
    THEN /\ _high_priority_messages' = Tail(_high_priority_messages)
         /\ UNCHANGED _rest_messages
    ELSE /\ _rest_messages' = Tail(_rest_messages)
         /\ UNCHANGED _high_priority_messages

\* mutation: send_queued_messages goes on to the other messages although the
\* high priority messages were throttled
send_loop_goes_on ==
  /\ pc \in {"high", "rest"}
  /\ container # <<>>
  /\ request("send_queued_messages")
  /\ IF last'.ret # 0
       THEN /\ delay' = last'.ret
            /\ pc' = IF pc = "high" THEN "rest" ELSE "idle"
            /\ UNCHANGED <<laneVars, sinkVars>>
       ELSE /\ on_send(Head(container), pc)
            /\ erase_front
            /\ UNCHANGED <<delay, pc>>
  /\ UNCHANGED <<moduloVars, demoVars>>
  /\ UNCHANGED <<winVars, now, next_id, granted, nreq, inserted>>

\* one pass of the loop of _send_queued_messages over a non-empty container
send_loop ==
  /\ pc \in {"high", "rest"}
  /\ container # <<>>
  /\ request("send_queued_messages")
  /\ IF last'.ret # 0
       THEN \* throttled: both calls return the delay
            /\ delay' = last'.ret
            /\ pc' = "idle"
            /\ UNCHANGED <<laneVars, sinkVars>>
       ELSE /\ on_send(Head(container), pc)
            /\ erase_front
            /\ UNCHANGED <<delay, pc>>
  /\ UNCHANGED <<moduloVars, demoVars>>
  /\ UNCHANGED <<winVars, now, next_id, granted, nreq, inserted>>

\* mutation: send_queued_messages returns once the high priority messages
\* are sent and never looks at the other messages
send_done_skips_rest ==
  /\ pc \in {"high", "rest"}
  /\ container = <<>>
  /\ pc' = "idle"
  /\ delay' = 0
  /\ UNCHANGED <<moduloVars, demoVars>>
  /\ UNCHANGED <<winVars, now, bufVars, laneVars, sinkVars, next_id, last, granted,
                 nreq, inserted>>

\* the loop of _send_queued_messages ends: the container is empty, it returns 0
send_done ==
  /\ pc \in {"high", "rest"}
  /\ container = <<>>
  /\ IF pc = "high"
       THEN /\ pc' = "rest"
            /\ UNCHANGED delay
       ELSE /\ pc' = "idle"
            /\ delay' = 0
  /\ UNCHANGED <<moduloVars, demoVars>>
  /\ UNCHANGED <<winVars, now, bufVars, laneVars, sinkVars, next_id, last, granted,
                 nreq, inserted>>

\* ------------------------------------------------------------ specifications
Init ==
  /\ \E n \in 1..MaxN, i \in 1..MaxInterval : Throttler(n, i)
  /\ now = 0
  /\ pc = "idle"
  /\ delay = 0
  /\ next_id = 1
  /\ last = NoRequest
  /\ granted = <<>>
  /\ nreq = 0
  /\ inserted = <<>>
  /\ CircularBufferModulo(_max_messages)
  /\ _scheduled = 0
  /\ _message_queue = <<>>
  /\ worker = "process"

Next ==
  \/ Tick
  \/ Submit
  \/ send_queued_messages
  \/ send_loop
  \/ send_done

Spec == Init /\ [][Next]_vars

\* The Throttler polled by its caller: the clock keeps advancing, the caller
\* keeps calling send_queued_messages(), and a call that was entered runs to
\* its return.
LiveSpec ==
  /\ Init
  /\ [][Next]_vars
  /\ WF_vars(Tick)
  /\ WF_vars(send_queued_messages)
  /\ WF_vars(send_loop)
  /\ WF_vars(send_done)

\* a bare SlidingWindow: the caller calls request()
Request ==
  /\ nreq < MaxReq
  /\ request("request")
  /\ delay' = last'.ret
  /\ nreq' = nreq + 1
  /\ granted' = IF last'.recorded THEN Append(granted, now) ELSE granted
  /\ UNCHANGED <<moduloVars, demoVars>>
  /\ UNCHANGED <<winVars, now, laneVars, sinkVars, pc, next_id, inserted>>

NextWindow ==
  \/ Tick
  \/ Request

SpecWindow == Init /\ [][NextWindow]_vars

\* a bare CircularBuffer<uint32_t>: the caller calls insert()
Insert ==
  /\ Len(inserted) < MaxInserts
  /\ \E item \in 0..MaxVal :
       /\ insert(item)
       /\ inserted' = Append(inserted, item)
  /\ UNCHANGED <<moduloVars, demoVars>>
  /\ UNCHANGED <<winVars, now, laneVars, sinkVars, pc, delay, next_id, last,
                 granted, nreq>>

NextBuffer == Insert

SpecBuffer == Init /\ [][NextBuffer]_vars

\* A SlidingWindow constructed with whatever arguments the caller passes: the
\* constructors of SlidingWindow, Throttler and CircularBuffer test nothing,
\* so a capacity of 0 and an interval <= 0 yield an instance as well.
InitAnyArguments ==
  /\ \E n \in 0..MaxN, i \in -1..MaxInterval : Throttler(n, i)
  /\ now = 0
  /\ pc = "idle"
  /\ delay = 0
  /\ next_id = 1
  /\ last = NoRequest
  /\ granted = <<>>
  /\ nreq = 0
  /\ inserted = <<>>
  /\ CircularBufferModulo(_max_messages)
  /\ _scheduled = 0
  /\ _message_queue = <<>>
  /\ worker = "process"

\* request() on a window of capacity 0: back() reads _buffer[0] of an empty
\* vector and insert() writes it. The behaviour is undefined: any delay may
\* be returned and nothing is known of the program afterwards.
RequestUndefined ==
  /\ size = 0
  /\ pc = "idle"
  /\ nreq < MaxReq
  /\ \E d \in 0..MaxInterval, branch \in BOOLEAN :
       /\ last' = [op |-> "request", at |-> now, denied |-> branch,
                   recorded |-> FALSE, ret |-> d]
       /\ delay' = d
  /\ pc' = "undefined"
  /\ nreq' = nreq + 1
  /\ UNCHANGED <<moduloVars, demoVars>>
  /\ UNCHANGED <<winVars, now, bufVars, laneVars, sinkVars, next_id, granted,
                 inserted>>

NextAnyArguments ==
  \/ size >= 1 /\ Tick
  \/ size >= 1 /\ Request
  \/ RequestUndefined

SpecAnyArguments == InitAnyArguments /\ [][NextAnyArguments]_vars

\* The two CircularBuffer variants, constructed with the same capacity, are
\* given the same items by the same insert() calls, without end.
InsertBoth ==
  /\ \E item \in 0..MaxVal :
       /\ insert(item)
       /\ insert_modulo(item)
  /\ UNCHANGED demoVars
  /\ UNCHANGED <<winVars, now, laneVars, sinkVars, pc, delay, next_id, last,
                 granted, nreq, inserted>>

NextEquivalence == InsertBoth

SpecEquivalence == Init /\ [][NextEquivalence]_vars

\* ------------------------------------------------- MealProcessor (example)
\* The worker thread of the example program owns a Throttler<CancelOrder, ...>
\* (CancelOrder is the "High" type here, NewOrder and AmendOrder are "Low")
\* and the deadline _scheduled; client threads push messages at any time.

\* Client::push_new_order / push_amend_order / push_cancel_order
push ==
  /\ (next_id - 1) + Len(_message_queue) < MaxMsgs
  /\ \E type \in MsgTypes : _message_queue' = Append(_message_queue, type)
  /\ UNCHANGED <<_scheduled, worker, moduloVars>>
  /\ UNCHANGED <<winVars, now, bufVars, laneVars, sinkVars, pc, delay, next_id,
                 last, granted, nreq, inserted>>

\* one pass of the loop of _process_message_queue: the front message goes
\* through try_send_message, _scheduled is set from the result, then pop()
process_message ==
  /\ worker = "process"
  /\ _message_queue # <<>>
  /\ try_send_message([id |-> next_id, type |-> Head(_message_queue)])
  /\ _scheduled' = IF delay' # 0 THEN now + delay' ELSE 0
  /\ _message_queue' = Tail(_message_queue)
  /\ UNCHANGED worker

\* _process_message_queue returns: front() found the queue empty
process_done ==
  /\ worker = "process"
  /\ _message_queue = <<>>
  /\ worker' = "send"
  /\ UNCHANGED <<_scheduled, _message_queue, moduloVars>>
  /\ UNCHANGED <<winVars, now, bufVars, laneVars, sinkVars, pc, delay, next_id,
                 last, granted, nreq, inserted>>

\* _send_queued_orders tests the deadline: past it, send_queued_messages()
\* is entered; otherwise the function returns to _main_loop
_send_queued_orders ==
  /\ worker = "send"
  /\ IF _scheduled # 0 /\ now >= _scheduled
       THEN /\ pc' = "high"
            /\ worker' = "drain"
       ELSE /\ worker' = "process"
            /\ UNCHANGED pc
  /\ UNCHANGED <<_scheduled, _message_queue, moduloVars>>
  /\ UNCHANGED <<winVars, now, bufVars, laneVars, sinkVars, delay, next_id,
                 last, granted, nreq, inserted>>

\* send_queued_messages() has returned: _scheduled is set from its result
\* and _send_queued_orders returns to _main_loop
send_queued_orders_returned ==
  /\ worker = "drain"
  /\ pc = "idle"
  /\ _scheduled' = IF delay # 0 THEN now + delay ELSE 0
  /\ worker' = "process"
  /\ UNCHANGED <<_message_queue, moduloVars>>
  /\ UNCHANGED <<winVars, now, bufVars, laneVars, sinkVars, pc, delay, next_id,
                 last, granted, nreq, inserted>>

NextDemo ==
  \/ Tick
  \/ push
  \/ process_message
  \/ process_done
  \/ _send_queued_orders
  \/ send_loop
  \/ send_done
  \/ send_queued_orders_returned

SpecDemo == Init /\ [][NextDemo]_vars

\* ------------------------------------------------------------------ claims
\* the recorded admissions whose timestamp lies in [t - _interval, t]
InWindow(t) == {i \in DOMAIN granted : granted[i] >= t - _interval /\ granted[i] <= t}

\* C1: at every instant, the number of granted requests whose timestamp lies
\* in the trailing window [now - interval, now] is at most max_events.
C1_RateBound == Cardinality(InWindow(now)) <= _max_messages

\* C1 witness: the window is saturated with admissions that replaced aged-out
\* ones, and a request has just been denied.
C1_Witness ==
  /\ last.op = "request" /\ last.denied /\ last.ret > 0
  /\ Cardinality(InWindow(now)) = _max_messages
  /\ Len(granted) > _max_messages

\* C2: request() returns zero if and only if it recorded `now`; whenever
\* admission is denied the returned value is strictly positive, at every clock
\* value, now - oldest = interval included.
C2_ReturnContract ==
  last.op = "request" =>
    /\ (last.ret = 0) <=> last.recorded
    /\ last.denied => last.ret > 0

\* C3: the sink is never notified for a message taken from the secondary lane
\* while the high-priority lane is non-empty.
C3_PriorityOrdering ==
  \A i \in DOMAIN sent : sent[i].from = "rest" => sent[i].hp_waiting = 0

\* C3 witness: a high-priority message submitted after a secondary message
\* was drained before it.
C3_Witness ==
  \E i, j \in DOMAIN sent :
    /\ i < j
    /\ sent[i].from = "high" /\ sent[j].from = "rest"
    /\ sent[i].id > sent[j].id

\* the messages the sink was notified for out of `lane`, in notification order
DrainedFrom(lane) == SelectSeq(sent, LAMBDA e : e.from = lane)

Increasing(ids) == \A i, j \in DOMAIN ids : i < j => ids[i] < ids[j]

Ids(msgs) == [i \in DOMAIN msgs |-> msgs[i].id]

\* C4: within a lane the sink is notified in submission order, and only the
\* front of a lane is ever removed: what was drained from a lane, followed by
\* what the lane still holds, is in submission order.
C4_FifoPerLane ==
  /\ Increasing(Ids(DrainedFrom("high")) \o Ids(_high_priority_messages))
  /\ Increasing(Ids(DrainedFrom("rest")) \o Ids(_rest_messages))

\* C4 witness: two messages of one lane were drained.
C4_Witness ==
  \E lane \in {"high", "rest"} : Len(DrainedFrom(lane)) >= 2

\* how many times message `id` occurs in `msgs`
Occurrences(id, msgs) == Cardinality({i \in DOMAIN msgs : msgs[i].id = id})

\* C5: every submitted message is in exactly one place - notified once, in
\* the high-priority lane, or in the secondary lane.
C5_NoLossNoDuplication ==
  /\ \A id \in 1..(next_id - 1) :
       Occurrences(id, sent) + Occurrences(id, _high_priority_messages)
         + Occurrences(id, _rest_messages) = 1
  /\ next_id - 1 = Len(sent) + Len(_high_priority_messages) + Len(_rest_messages)

\* C5 witness: one message was dispatched at submission, one was drained, and
\* one is still buffered.
C5_Witness ==
  /\ \E i \in DOMAIN sent : sent[i].from = "submit"
  /\ \E i \in DOMAIN sent : sent[i].from # "submit"
  /\ Len(_high_priority_messages) + Len(_rest_messages) > 0

\* every message submitted so far has been notified to the sink, both lanes
\* are empty and the last call returned zero
Delivered ==
  /\ _high_priority_messages = <<>>
  /\ _rest_messages = <<>>
  /\ pc = "idle"
  /\ delay = 0
  /\ \A id \in 1..(next_id - 1) : Occurrences(id, sent) = 1

\* C6: once no further message is submitted, with the clock advancing and the
\* caller polling send_queued_messages(), both lanes eventually are empty,
\* the call returns zero and every buffered message has been notified.
\* (At most MaxMsgs messages are submitted, so in every behaviour the
\* submissions end.)
C6_EventualDelivery == []<>Delivered

\* C6 witness: everything is delivered after a message of each lane had been
\* buffered and drained.
C6_Witness ==
  /\ Delivered
  /\ DrainedFrom("high") # <<>>
  /\ DrainedFrom("rest") # <<>>

\* C7: on a fresh window each of the first max_events request() calls is
\* granted: it returns zero and records its timestamp.
C7_BurstAllowance ==
  (nreq >= 1 /\ nreq <= _max_messages) =>
    /\ Len(granted) = nreq
    /\ granted[nreq] = last.at
    /\ last.recorded
    /\ last.ret = 0
    /\ delay = 0

\* C7 witness: max_events > 1 requests were made within one interval and all
\* were granted.
C7_Witness ==
  /\ nreq = _max_messages
  /\ _max_messages > 1
  /\ granted[nreq] - granted[1] < _interval
  /\ granted[1] < granted[nreq]

C9_OldestAfterFill ==
  Len(inserted) >= size =>
    /\ back = inserted[Len(inserted) - size + 1]
    /\ back_slot = _index

\* C9 witness: the buffer has wrapped and the oldest item differs from the
\* first and from the newest.
C9_Witness ==
  /\ Len(inserted) > size
  /\ size > 1
  /\ back = inserted[Len(inserted) - size + 1]
  /\ back # inserted[1]
  /\ back # inserted[Len(inserted)]

\* C10 as stated: after k < n insertions back() returns the default
\* placeholder of T, whatever was inserted.
C10_DefaultBeforeFill ==
  Len(inserted) < size => back = DefaultT

\* C10 amended: after k < n insertions back() returns _buffer[0]: the
\* default placeholder when k = 0, the first inserted item v1 when k >= 1.
C10_FirstBeforeFill ==
  Len(inserted) < size =>
    back = IF Len(inserted) = 0 THEN DefaultT ELSE inserted[1]

\* C10 witness: the buffer is not full and back() is the first inserted
\* item, which is not the default.
C10_Witness ==
  /\ Len(inserted) >= 1
  /\ Len(inserted) < size
  /\ back = inserted[1]
  /\ back # DefaultT

\* C11: is_full() is false after fewer than n insertions, true from the n-th
\* insertion on, and never reverts to false.
C11_Fullness ==
  /\ [](is_full <=> Len(inserted) >= size)
  /\ [][is_full => is_full']_vars

\* C11 witness: the buffer is full, has been overwritten, and its cursor is
\* in the middle of the storage.
C11_Witness ==
  /\ is_full
  /\ Len(inserted) > size
  /\ _index # 0

\* C12: construction with max_events = 0 or interval <= 0 is rejected, so no
\* request() ever runs against a zero-capacity history or a non-positive
\* interval.
C12_MisconfigurationRejected ==
  nreq > 0 => (_max_messages >= 1 /\ _interval >= 1)

\* the step in which send_queued_messages() returns to its caller
DrainReturns == pc \in {"high", "rest"} /\ pc' = "idle"

NothingBuffered == _high_priority_messages = <<>> /\ _rest_messages = <<>>

\* C13: send_queued_messages() returns zero if and only if both lanes are
\* empty when it returns (so a nonzero return means a message is still
\* buffered); called on two empty lanes it returns zero without notifying the
\* sink and without changing the window history.
C13_DrainResult ==
  [][/\ DrainReturns => ((delay' = 0) <=> NothingBuffered')
     /\ ((send_queued_messages \/ send_loop \/ send_done) /\ NothingBuffered) =>
          /\ sent' = sent
          /\ UNCHANGED bufVars
          /\ pc' = "idle" => delay' = 0]_vars

\* C13 witness: a send_queued_messages() that sent the last of at least two
\* buffered messages has returned zero.
C13_Witness ==
  /\ pc = "idle"
  /\ delay = 0
  /\ NothingBuffered
  /\ last.op = "send_queued_messages"
  /\ last.recorded
  /\ Len(DrainedFrom("high")) + Len(DrainedFrom("rest")) >= 2

\* C14: after try_send_message() or send_queued_messages() returned a
\* nonzero delay d at time t, a send_queued_messages() that consults the
\* window at a time before t + d, with no admission in between, notifies
\* nothing, changes neither lane nor the window history, and returns a
\* delay that is nonzero and no greater than d. (`last` is the most recent
\* request(): a positive last.ret means no admission happened since.)
C14_EarlyPollingHarmless ==
  [][(send_loop /\ last.ret > 0 /\ now < last.at + last.ret) =>
       /\ sent' = sent
       /\ UNCHANGED <<laneVars, bufVars>>
       /\ pc' = "idle"
       /\ delay' > 0
       /\ delay' <= last.ret]_vars

\* C14 witness: only the first max_messages messages were ever admitted, a
\* later try_send_message() was denied (its message is still buffered), and
\* a send_queued_messages() made after it, while the oldest admission was
\* still inside the interval, has returned a delay shorter than the interval.
C14_Witness ==
  /\ pc = "idle"
  /\ last.op = "send_queued_messages"
  /\ last.at > back
  /\ delay > 0
  /\ delay < _interval
  /\ Len(sent) = _max_messages
  /\ ~NothingBuffered

\* C15: with a clock that never goes back, every value returned by
\* request(), try_send_message() and send_queued_messages() is at least 0
\* and at most the interval. (last.ret is what the most recent request()
\* returned, delay what the most recent Throttler call returned.)
C15_DelayRange ==
  /\ last.ret >= 0
  /\ last.ret <= _interval
  /\ delay >= 0
  /\ delay <= _interval

\* C15 witness: a call was denied in the very instant the oldest admission
\* was recorded and has returned the whole interval, the upper end of the
\* range, for an interval longer than one tick.
C15_Witness ==
  /\ last.denied
  /\ last.at = back
  /\ delay = _interval
  /\ last.ret = _interval
  /\ _interval > 1

\* C16: the returned delay is exact: if a request() is denied at time t and
\* returns d > 0, then, with no admission in between, a request() at any
\* time t' >= t + d is granted: it records t' in the history and returns 0.
\* (Violated: at t' = t + d exactly the oldest admission is still counted,
\* request() takes the denial branch and returns 0 without recording.)
C16_DelayExact ==
  [][(Request /\ last.denied /\ last.ret > 0 /\ now >= last.at + last.ret) =>
       (last'.recorded /\ last'.ret = 0)]_vars

\* C17: sink-level rate bound: for every sequence of try_send_message() and
\* send_queued_messages() calls, the number of on_send calls whose time lies
\* in the trailing window [now - interval, now] is at most max_messages.
\* (`recent` holds the times of exactly those on_send calls. Violated: a
\* request() made exactly one interval after the oldest admission returns 0
\* without recording anything, and its caller calls on_send.)
C17_SinkRateBound == Len(recent) <= _max_messages

\* C18 as stated: try_send_message() never notifies the sink for a newly
\* submitted message while an earlier-submitted message is still buffered in
\* the high-priority lane or in the new message's own lane. (Violated:
\* try_send_message() does not look at the lanes.)
C18_NoOvertaking ==
  [][(Submit /\ sent' # sent) =>
       /\ _high_priority_messages = <<>>
       /\ sent'[Len(sent')].type # THighPriorityMessage => _rest_messages = <<>>]_vars

\* C18 amended: try_send_message() notifies the sink for the new message
\* exactly when its request() returns 0, whatever the lanes hold, and leaves
\* the lanes alone in that case; order is kept only among buffered messages:
\* send_queued_messages() notifies the front message of the lane it is
\* flushing and removes it, and flushes the secondary lane only while the
\* high-priority lane is empty.
C18_OrderAmongBuffered ==
  [][/\ Submit =>
          IF last'.ret = 0
            THEN /\ Len(sent') = Len(sent) + 1
                 /\ SubSeq(sent', 1, Len(sent)) = sent
                 /\ sent'[Len(sent')].id = next_id
                 /\ sent'[Len(sent')].from = "submit"
                 /\ UNCHANGED laneVars
            ELSE sent' = sent
     /\ (send_loop /\ sent' # sent) =>
          /\ Len(sent') = Len(sent) + 1
          /\ SubSeq(sent', 1, Len(sent)) = sent
          /\ sent'[Len(sent')].id = Head(container).id
          /\ sent'[Len(sent')].from = pc
          /\ container' = Tail(container)
          /\ pc = "rest" => _high_priority_messages = <<>>]_vars

\* C18 witness: the latest try_send_message() was granted by a request()
\* that recorded its time, and its message was notified directly while an
\* earlier high-priority message was, and still is, waiting in its lane.
C18_Witness ==
  /\ last.op = "try_send_message"
  /\ last.recorded
  /\ sent # <<>>
  /\ sent[Len(sent)].from = "submit"
  /\ sent[Len(sent)].hp_waiting > 0
  /\ _high_priority_messages # <<>>

\* C19: send_queued_messages() stops at the first denial: once a request()
\* made inside it returns nonzero, the call notifies nothing more and
\* consults the window no more, returns that delay, leaves the un-notified
\* messages of the current lane in place and in order, and leaves the
\* secondary lane unchanged when the denial occurred while flushing the
\* high-priority lane; no step taken while flushing the high-priority lane
\* touches the secondary lane.
C19_DrainStopsAtDenial ==
  [][/\ (send_loop /\ last'.ret # 0) =>
          /\ pc' = "idle"
          /\ delay' = last'.ret
          /\ sent' = sent
          /\ UNCHANGED <<_high_priority_messages, _rest_messages>>
          /\ UNCHANGED bufVars
     /\ pc = "high" => _rest_messages' = _rest_messages]_vars

\* C19 witness: a send_queued_messages() has returned the delay of a denial
\* met while flushing the high-priority lane, and both lanes still hold
\* their messages.
C19_Witness ==
  /\ pc = "idle"
  /\ last.op = "send_queued_messages"
  /\ last.denied
  /\ last.ret > 0
  /\ delay = last.ret
  /\ _high_priority_messages # <<>>
  /\ _rest_messages # <<>>

\* C20: routing on denial: when try_send_message(message) is denied with a
\* nonzero delay d, the message is appended at the back of the high-priority
\* lane if and only if its type is THighPriorityMessage, otherwise at the
\* back of the secondary lane; the other lane is unchanged, the sink is not
\* notified in that call, and the call returns d.
C20_RoutingOnDenial ==
  [][\A type \in MsgTypes :
       LET message == [id |-> next_id, type |-> type] IN
       (next_id <= MaxMsgs /\ try_send_message(message) /\ last'.ret # 0) =>
         /\ IF type = THighPriorityMessage
              THEN /\ _high_priority_messages' =
                        Append(_high_priority_messages, message)
                   /\ _rest_messages' = _rest_messages
              ELSE /\ _rest_messages' = Append(_rest_messages, message)
                   /\ _high_priority_messages' = _high_priority_messages
         /\ sent' = sent
         /\ delay' = last'.ret]_vars

\* C20 witness: a denied try_send_message() has just returned its nonzero
\* delay, and denied messages of both types are buffered: the high-priority
\* lane holds only THighPriorityMessage messages, the secondary lane none.
C20_Witness ==
  /\ pc = "idle"
  /\ last.op = "try_send_message"
  /\ last.denied
  /\ delay = last.ret
  /\ delay > 0
  /\ _high_priority_messages # <<>>
  /\ _rest_messages # <<>>
  /\ \A i \in 1..Len(_high_priority_messages) :
       _high_priority_messages[i].type = THighPriorityMessage
  /\ \A i \in 1..Len(_rest_messages) :
       _rest_messages[i].type # THighPriorityMessage

\* C21: the two CircularBuffer variants (modulo cursor _head without a flag,
\* and _index with the _full flag), constructed with the same capacity
\* n >= 1 and given the same insert() calls, return the same back() and the
\* same is_full() after every step, also when the counter _head wraps
\* around. (Violated: when _head wraps to 0 the modulo variant reports not
\* full again, and its back() reads slot 0.)
C21_VariantsEquivalent ==
  /\ is_full_modulo = is_full
  /\ back_modulo = back

\* C22: the MealProcessor worker never strands buffered messages: whenever
\* the throttler holds at least one buffered message, the deadline
\* _scheduled is non-empty. (Violated: a later message that
\* try_send_message() dispatches at once makes _process_message_queue reset
\* _scheduled while earlier messages are still buffered.)
C22_DeadlineWhileBuffered == ~NothingBuffered => _scheduled # 0

====
